---------------------------- MODULE Spec2Model ----------------------------
(***************************************************************************)
(* Foodgram API: the view-sets of api/views.py and the serializers of      *)
(* api/serializers.py over the relational tables they read and write.      *)
(*                                                                         *)
(* Tables.  Recipe, RecipeTags and RecipeIngredient are sequences indexed  *)
(* by the recipe's primary key (1..Len(Recipe)); the RecipeIngredient rows *)
(* of one recipe are a bag of (ingredient id, amount) rows, so that two    *)
(* rows with the same ingredient can be told apart.  Subscription,         *)
(* Favorite and ShoppingCart map a (user, target) pair to the NUMBER of    *)
(* rows stored for it, so that a duplicated row is a state of the model.   *)
(* Row primary keys and the recipe's author are not modelled: no handler   *)
(* below reads them.                                                       *)
(***************************************************************************)
EXTENDS Integers, Sequences, FiniteSets, Bags

VARIABLES
    Recipe,            \* Recipe rows: <<[name], ...>>, pk = index
    RecipeTags,        \* recipe.tags through-table: pk -> set of tag pks
    RecipeIngredient,  \* RecipeIngredient rows: pk -> bag of [id, amount]
    Subscription,      \* <<user, author>> -> number of rows
    Favorite,          \* <<user, recipe>> -> number of rows
    ShoppingCart,      \* <<user, recipe>> -> number of rows
    resp,              \* the response of the last request served in sequence
    before,            \* relationTables as that request found them
    request,           \* the body of that request, when it has one
    pc,                \* concurrent workers: position inside the handler
    req                \* concurrent workers: request being served / response

vars == <<Recipe, RecipeTags, RecipeIngredient, Subscription, Favorite,
          ShoppingCart, resp, before, request, pc, req>>

recipeTables == <<Recipe, RecipeTags, RecipeIngredient>>
relationTables == <<Subscription, Favorite, ShoppingCart>>
workers == <<pc, req>>

---------------------------------------------------------------------------
(* Bounds and fixtures *)

MaxRows == 2       \* longest ingredient list of a request body

\* User rows (pk); UserIds adds an id no User row has.
Users == {1, 2}
UserIds == Users \cup {3}
\* The primary keys the Recipe table hands out, in order.
RecipeIds == {1, 2}
\* The amounts a request body names.
Amounts == {1, 2}

\* Tag rows (pk) and Ingredient rows (pk -> name, measurement_unit).
Tag == {1, 2}
Ingredient ==
    <<[name |-> "salt", measurement_unit |-> "g"],
      [name |-> "salt", measurement_unit |-> "kg"]>>
IngredientIds == 1..(Len(Ingredient) + 1)   \* the last one has no row
RecipeNames == {"a", "b"}

Range(s) == {s[i] : i \in DOMAIN s}
SeqsUpTo(S, n) == UNION {[1..k -> S] : k \in 0..n}

NoBody == <<>>
NoRequest == [name |-> "", tags |-> {}, ingredients |-> <<>>]
Response(op, user, target, status) ==
    [op |-> op, user |-> user, target |-> target, status |-> status,
     body |-> NoBody]

BagOfSeq(s) ==
    [r \in Range(s) |-> Cardinality({i \in DOMAIN s : s[i] = r})]

---------------------------------------------------------------------------
(* RecipeCreateSerializer *)

\* The request body after field validation: name stands for the scalar
\* fields name/text/cooking_time/image ("" = missing or blank), tags is the
\* Tag pks (as the set recipe.tags.set() stores), ingredients the list of
\* {id, amount}.
RecipePayloads ==
    [name : RecipeNames \cup {""},
     tags : SUBSET Tag,
     ingredients : SeqsUpTo([id : IngredientIds, amount : Amounts], MaxRows)]

validate_NoUniqueCheck(obj) ==
    IF obj.name = "" THEN "required"
    ELSE IF obj.tags = {} THEN "no_tags"
    ELSE IF obj.ingredients = <<>> THEN "no_ingredients"
    ELSE "ok"

validate(obj) ==
    IF obj.name = "" THEN "required"
    ELSE IF obj.tags = {} THEN "no_tags"
    ELSE IF obj.ingredients = <<>> THEN "no_ingredients"
    ELSE LET inrgedient_id_list == [i \in DOMAIN obj.ingredients |->
                                        obj.ingredients[i].id]
             unique_ingredient_id_list == Range(inrgedient_id_list)
         IN IF Len(inrgedient_id_list) # Cardinality(unique_ingredient_id_list)
            THEN "not_unique"
            ELSE "ok"

\* The three recipe tables as one value, as a transaction sees them.
RecipeDb == [Recipe |-> Recipe, tags |-> RecipeTags, rows |-> RecipeIngredient]

Raised(db) == [raised |-> TRUE, db |-> db]
Returned(db) == [raised |-> FALSE, db |-> db]

atomic_NoRollback(savepoint, result) == result

\* @transaction.atomic: an exception leaving the block undoes its writes.
atomic(savepoint, result) ==
    IF result.raised THEN Raised(savepoint) ELSE result

tags_and_ingredients_set(db, recipe, tags, ingredients) ==
    LET db1 == [db EXCEPT !.tags[recipe] = tags]
    IN atomic(db,
         IF \E i \in DOMAIN ingredients : ingredients[i].id \notin DOMAIN Ingredient
         THEN Raised(db1)          \* Ingredient.objects.get: DoesNotExist
         ELSE Returned([db1 EXCEPT !.rows[recipe] = @ (+) BagOfSeq(ingredients)]))

create(db, validated_data) ==
    LET db1 == [Recipe |-> Append(db.Recipe, [name |-> validated_data.name]),
                tags |-> Append(db.tags, {}),
                rows |-> Append(db.rows, EmptyBag)]
    IN atomic(db, tags_and_ingredients_set(db1, Len(db1.Recipe),
                      validated_data.tags, validated_data.ingredients))

delete_rows_Keep(db, instance) == db

\* RecipeIngredient.objects.filter(recipe=instance,
\*     ingredient__in=instance.ingredients.all()).delete()
delete_rows(db, instance) ==
    LET ingredients == {row.id : row \in BagToSet(db.rows[instance])}
        kept == {row \in BagToSet(db.rows[instance]) : row.id \notin ingredients}
    IN [db EXCEPT !.rows[instance] = [row \in kept |-> @[row]]]

update(db, instance, validated_data) ==
    LET db1 == delete_rows(db, instance)
        set == tags_and_ingredients_set(db1, instance, validated_data.tags,
                                        validated_data.ingredients)
    IN atomic(db,
         IF set.raised THEN set
         ELSE Returned([set.db EXCEPT          \* instance.save()
                          !.Recipe[instance].name = validated_data.name]))

\* POST /recipes/ with body data
RecipeCreateWith(data) ==
    /\ Len(Recipe) + 1 \in RecipeIds
    /\ request' = data
    /\   LET v == validate(data)
             r == create(RecipeDb, data)
         IN IF v # "ok"
            THEN /\ resp' = Response("recipe_create", 0, 0, 400)
                 /\ UNCHANGED recipeTables
            ELSE /\ resp' = Response("recipe_create", 0,
                                     IF r.raised THEN 0 ELSE Len(r.db.Recipe),
                                     IF r.raised THEN 500 ELSE 201)
                 /\ Recipe' = r.db.Recipe
                 /\ RecipeTags' = r.db.tags
                 /\ RecipeIngredient' = r.db.rows
    /\ UNCHANGED <<relationTables, before, workers>>

RecipeCreate == \E data \in RecipePayloads : RecipeCreateWith(data)

\* PATCH /recipes/{instance}/ with body data
RecipeUpdateWith(instance, data) ==
    /\ request' = data
    /\   LET v == validate(data)
             r == update(RecipeDb, instance, data)
         IN IF v # "ok"
            THEN /\ resp' = Response("recipe_update", 0, instance, 400)
                 /\ UNCHANGED recipeTables
            ELSE /\ resp' = Response("recipe_update", 0, instance,
                                     IF r.raised THEN 500 ELSE 200)
                 /\ Recipe' = r.db.Recipe
                 /\ RecipeTags' = r.db.tags
                 /\ RecipeIngredient' = r.db.rows
    /\ UNCHANGED <<relationTables, before, workers>>

RecipeUpdate ==
    \E instance \in DOMAIN Recipe, data \in RecipePayloads :
        RecipeUpdateWith(instance, data)

---------------------------------------------------------------------------
(* Subscription, Favorite, ShoppingCart: the pieces of the handlers *)

UniqueTogetherValidator_Pass(table, user, target) == TRUE

\* UniqueTogetherValidator(queryset=<table>.objects.all(), fields=...):
\* passes when no row holds the pair.
UniqueTogetherValidator(table, user, target) == table[<<user, target>>] = 0

validate_subscribe_AllowSelf(user, author) == TRUE

\* UserSubscribeSerializer.validate: passes unless request.user is the author.
validate_subscribe(user, author) == user # author

\* <table>.objects.filter(user=..., <target>=...).exists()
exists(table, user, target) == table[<<user, target>>] > 0

\* serializer.save(): INSERT of one row.  Onto a pair that already has a row
\* the INSERT either adds a second row or raises IntegrityError, as the
\* table's constraints (recipes/models.py, users/models.py) decide.
save(table, user, target) ==
    LET inserted == [table EXCEPT ![<<user, target>>] = @ + 1]
    IN IF table[<<user, target>>] = 0
       THEN {Returned(inserted)}
       ELSE {Returned(inserted), Raised(table)}

filter_delete_AllUsers(table, user, target) ==
    [p \in DOMAIN table |-> IF p[2] = target THEN 0 ELSE table[p]]

\* <table>.objects.filter(user=request.user, recipe=instance).delete()
filter_delete(table, user, target) == [table EXCEPT ![<<user, target>>] = 0]

\* Subscription.objects.get(user=..., author=...).delete(): get() raises
\* DoesNotExist on no row and MultipleObjectsReturned on several.
get_delete(table, user, target) ==
    IF table[<<user, target>>] = 1
    THEN Returned([table EXCEPT ![<<user, target>>] = 0])
    ELSE Raised(table)

\* serializer.is_valid(raise_exception=True) of the three serializers: the
\* Meta validators run first, then validate().
is_valid(op, table, user, target) ==
    /\ UniqueTogetherValidator(table, user, target)
    /\ op = "subscribe" => validate_subscribe(user, target)

---------------------------------------------------------------------------
(* Requests served one at a time *)

\* POST /users/{id}/subscribe/
SubscribePost ==
    /\ \E user \in Users, id \in UserIds :
         IF id \notin Users                        \* get_object_or_404
         THEN /\ resp' = Response("subscribe_post", user, id, 404)
              /\ UNCHANGED Subscription
         ELSE IF ~is_valid("subscribe", Subscription, user, id)
         THEN /\ resp' = Response("subscribe_post", user, id, 400)
              /\ UNCHANGED Subscription
         ELSE \E r \in save(Subscription, user, id) :
              /\ resp' = Response("subscribe_post", user, id,
                                  IF r.raised THEN 500 ELSE 201)
              /\ Subscription' = r.db
    /\ before' = relationTables
    /\ request' = NoRequest
    /\ UNCHANGED <<recipeTables, Favorite, ShoppingCart, workers>>

\* DELETE /users/{id}/subscribe/
SubscribeDelete ==
    /\ \E user \in Users, id \in UserIds :
         IF id \notin Users
         THEN /\ resp' = Response("subscribe_delete", user, id, 404)
              /\ UNCHANGED Subscription
         ELSE IF ~exists(Subscription, user, id)
         THEN /\ resp' = Response("subscribe_delete", user, id, 400)
              /\ UNCHANGED Subscription
         ELSE LET r == get_delete(Subscription, user, id)
              IN /\ resp' = Response("subscribe_delete", user, id,
                                     IF r.raised THEN 500 ELSE 204)
                 /\ Subscription' = r.db
    /\ before' = relationTables
    /\ request' = NoRequest
    /\ UNCHANGED <<recipeTables, Favorite, ShoppingCart, workers>>

\* RecipeViewSet.create_model_instance, after get_object_or_404(Recipe, pk)
create_model_instance(op, table, user, pk) ==
    IF pk \notin DOMAIN Recipe
    THEN {[status |-> 404, table |-> table]}
    ELSE IF ~is_valid(op, table, user, pk)
    THEN {[status |-> 400, table |-> table]}
    ELSE {[status |-> IF r.raised THEN 500 ELSE 201, table |-> r.db] :
             r \in save(table, user, pk)}

\* RecipeViewSet.delete_model_instance, after get_object_or_404(Recipe, pk)
delete_model_instance(table, user, pk) ==
    IF pk \notin DOMAIN Recipe
    THEN [status |-> 404, table |-> table]
    ELSE IF ~exists(table, user, pk)
    THEN [status |-> 400, table |-> table]
    ELSE [status |-> 204, table |-> filter_delete(table, user, pk)]

\* POST /recipes/{pk}/favorite/
FavoritePost ==
    /\ \E user \in Users, pk \in RecipeIds :
         \E r \in create_model_instance("favorite", Favorite, user, pk) :
            /\ resp' = Response("favorite_post", user, pk, r.status)
            /\ Favorite' = r.table
    /\ before' = relationTables
    /\ request' = NoRequest
    /\ UNCHANGED <<recipeTables, Subscription, ShoppingCart, workers>>

\* DELETE /recipes/{pk}/favorite/
FavoriteDelete ==
    /\ \E user \in Users, pk \in RecipeIds :
         LET r == delete_model_instance(Favorite, user, pk)
         IN /\ resp' = Response("favorite_delete", user, pk, r.status)
            /\ Favorite' = r.table
    /\ before' = relationTables
    /\ request' = NoRequest
    /\ UNCHANGED <<recipeTables, Subscription, ShoppingCart, workers>>

\* POST /recipes/{pk}/shopping_cart/
ShoppingCartPost ==
    /\ \E user \in Users, pk \in RecipeIds :
         \E r \in create_model_instance("shopping_cart", ShoppingCart, user, pk) :
            /\ resp' = Response("shopping_cart_post", user, pk, r.status)
            /\ ShoppingCart' = r.table
    /\ before' = relationTables
    /\ request' = NoRequest
    /\ UNCHANGED <<recipeTables, Subscription, Favorite, workers>>

\* DELETE /recipes/{pk}/shopping_cart/
ShoppingCartDelete ==
    /\ \E user \in Users, pk \in RecipeIds :
         LET r == delete_model_instance(ShoppingCart, user, pk)
         IN /\ resp' = Response("shopping_cart_delete", user, pk, r.status)
            /\ ShoppingCart' = r.table
    /\ before' = relationTables
    /\ request' = NoRequest
    /\ UNCHANGED <<recipeTables, Subscription, Favorite, workers>>

---------------------------------------------------------------------------
(* RecipeViewSet.download_shopping_cart *)

cart_join_AnyUser(user) ==
    UNION {UNION {{[recipe |-> r, row |-> row, k |-> k, cart |-> <<u, c>>] :
                     k \in 1..RecipeIngredient[r][row],
                     c \in 1..ShoppingCart[<<u, r>>]} :
                  row \in BagToSet(RecipeIngredient[r]), u \in Users} :
           r \in DOMAIN Recipe}

\* RecipeIngredient.objects.filter(recipe__carts__user=request.user): the
\* join of the RecipeIngredient rows with the ShoppingCart rows of the user,
\* one joined row per (RecipeIngredient row, ShoppingCart row) pair.
cart_join(user) ==
    UNION {UNION {{[recipe |-> r, row |-> row, k |-> k, cart |-> <<user, c>>] :
                     k \in 1..RecipeIngredient[r][row],
                     c \in 1..ShoppingCart[<<user, r>>]} :
                  row \in BagToSet(RecipeIngredient[r])} :
           r \in DOMAIN Recipe}

RECURSIVE Sum(_)
\* Sum('amount') over a set of joined rows
Sum(rows) ==
    IF rows = {} THEN 0
    ELSE LET j == CHOOSE j \in rows : TRUE
         IN j.row.amount + Sum(rows \ {j})

\* .values('ingredient__name', 'ingredient__measurement_unit')
values(j) == <<Ingredient[j.row.id].name, Ingredient[j.row.id].measurement_unit>>

\* The lines of the file after the header, as a bag: the order of a grouped
\* query without order_by is the database's.
download_shopping_cart(user) ==
    LET ingredients == cart_join(user)
        groups == {values(j) : j \in ingredients}
    IN SetToBag({[name |-> g[1], unit |-> g[2],
                  amount |-> Sum({j \in ingredients : values(j) = g})] :
                 g \in groups})

\* GET /recipes/download_shopping_cart/
DownloadShoppingCart ==
    /\ \E user \in Users :
         resp' = [Response("download_shopping_cart", user, 0, 200)
                    EXCEPT !.body = download_shopping_cart(user)]
    /\ before' = relationTables
    /\ request' = NoRequest
    /\ UNCHANGED <<recipeTables, relationTables, workers>>

---------------------------------------------------------------------------
(* Requests served concurrently by the workers of the application server.  *)
(* A worker's step is one database statement of the handler; what it holds *)
(* between two steps is its own (req, pc).                                 *)

Workers == {1, 2}
\* The user whose requests the workers serve at the same time.
Clients == {1}
Ops == {"subscribe", "favorite", "shopping_cart"}
Idle == [op |-> "none", method |-> "none", user |-> 0, target |-> 0, status |-> 0]

TableOf(op) ==
    CASE op = "subscribe" -> Subscription
      [] op = "favorite" -> Favorite
      [] op = "shopping_cart" -> ShoppingCart

Write(op, table) ==
    /\ Subscription' = IF op = "subscribe" THEN table ELSE Subscription
    /\ Favorite' = IF op = "favorite" THEN table ELSE Favorite
    /\ ShoppingCart' = IF op = "shopping_cart" THEN table ELSE ShoppingCart

Respond(w, status) ==
    /\ req' = [req EXCEPT ![w].status = status]
    /\ pc' = [pc EXCEPT ![w] = "idle"]

\* The request arrives and get_object_or_404 finds its target.
Receive(w) ==
    /\ pc[w] = "idle"
    /\ \E op \in Ops, method \in {"POST", "DELETE"}, user \in Clients :
         \E target \in IF op = "subscribe" THEN Users ELSE DOMAIN Recipe :
            /\ req' = [req EXCEPT ![w] = [op |-> op, method |-> method,
                          user |-> user, target |-> target, status |-> 0]]
            /\ pc' = [pc EXCEPT ![w] = IF method = "POST" THEN "is_valid"
                                       ELSE "exists"]
    /\ UNCHANGED <<recipeTables, relationTables, resp, before, request>>

\* serializer.is_valid(raise_exception=True)
IsValid(w) ==
    /\ pc[w] = "is_valid"
    /\ IF is_valid(req[w].op, TableOf(req[w].op), req[w].user, req[w].target)
       THEN /\ pc' = [pc EXCEPT ![w] = "save"]
            /\ UNCHANGED req
       ELSE Respond(w, 400)
    /\ UNCHANGED <<recipeTables, relationTables, resp, before, request>>

\* serializer.save()
Save(w) ==
    /\ pc[w] = "save"
    /\ \E r \in save(TableOf(req[w].op), req[w].user, req[w].target) :
         /\ Write(req[w].op, r.db)
         /\ Respond(w, IF r.raised THEN 500 ELSE 201)
    /\ UNCHANGED <<recipeTables, resp, before, request>>

\* if not <table>.objects.filter(...).exists()
Exists(w) ==
    /\ pc[w] = "exists"
    /\ IF exists(TableOf(req[w].op), req[w].user, req[w].target)
       THEN /\ pc' = [pc EXCEPT ![w] = "delete"]
            /\ UNCHANGED req
       ELSE Respond(w, 400)
    /\ UNCHANGED <<recipeTables, relationTables, resp, before, request>>

\* Subscription.objects.get(...).delete() / <table>.objects.filter(...).delete()
Delete(w) ==
    /\ pc[w] = "delete"
    /\ LET table == TableOf(req[w].op)
           r == IF req[w].op = "subscribe"
                THEN get_delete(table, req[w].user, req[w].target)
                ELSE Returned(filter_delete(table, req[w].user, req[w].target))
       IN /\ Write(req[w].op, r.db)
          /\ Respond(w, IF r.raised THEN 500 ELSE 204)
    /\ UNCHANGED <<recipeTables, resp, before, request>>

---------------------------------------------------------------------------
(* Specifications *)

NoRows(S, T) == [p \in S \X T |-> 0]

InitRelations ==
    /\ Subscription = NoRows(Users, Users)
    /\ Favorite = NoRows(Users, RecipeIds)
    /\ ShoppingCart = NoRows(Users, RecipeIds)
    /\ resp = Response("none", 0, 0, 0)
    /\ before = relationTables
    /\ request = NoRequest
    /\ pc = [w \in Workers |-> "idle"]
    /\ req = [w \in Workers |-> Idle]

\* What RecipeCreate can store for one recipe: a name, a non-empty set of
\* tags and a non-empty list of at most MaxRows rows over distinct existing
\* ingredients.
StoredRows ==
    {BagOfSeq(l) : l \in {l \in SeqsUpTo([id : DOMAIN Ingredient, amount : Amounts],
                                         MaxRows) :
                            /\ l # <<>>
                            /\ \A i, j \in DOMAIN l : l[i].id = l[j].id => i = j}}
Stored == [name : RecipeNames, tags : (SUBSET Tag) \ {{}}, rows : StoredRows]
Pancakes == [name |-> "a", tags |-> {1},
             rows |-> BagOfSeq(<<[id |-> 1, amount |-> 1]>>)]

Published(shelf) ==
    /\ Recipe = [i \in DOMAIN shelf |-> [name |-> shelf[i].name]]
    /\ RecipeTags = [i \in DOMAIN shelf |-> shelf[i].tags]
    /\ RecipeIngredient = [i \in DOMAIN shelf |-> shelf[i].rows]

\* The recipe tables after the creates (and updates) that published one of
\* these shelves: none, one recipe, or two of which one is Pancakes.
InitShelf ==
    /\ \E shelf \in {<<>>} \cup {<<x>> : x \in Stored}
                    \cup {<<x, Pancakes>> : x \in Stored}
                    \cup {<<Pancakes, x>> : x \in Stored} : Published(shelf)
    /\ InitRelations

\* One recipe request on a shelf: every shelf is what earlier requests left,
\* and the request body is kept in the state.
FirstRecipeCreate == resp.op = "none" /\ RecipeCreate
FirstRecipeUpdate == resp.op = "none" /\ RecipeUpdate

NextRecipes == FirstRecipeCreate \/ FirstRecipeUpdate

SpecRecipes == InitShelf /\ [][NextRecipes]_vars

\* Two recipes published, of any rows.
InitPublished ==
    /\ \E x, y \in {z \in Stored : z.name = "a" /\ z.tags = {1}} :
         Published(<<x, y>>)
    /\ InitRelations

NextRelations ==
    \/ SubscribePost \/ SubscribeDelete
    \/ FavoritePost \/ FavoriteDelete
    \/ ShoppingCartPost \/ ShoppingCartDelete

InitPancakes ==
    /\ Published(<<Pancakes, Pancakes>>)
    /\ InitRelations

SpecRelations == InitPancakes /\ [][NextRelations]_vars

NextCart == ShoppingCartPost \/ ShoppingCartDelete \/ DownloadShoppingCart

SpecCart == InitPublished /\ [][NextCart]_vars

NextWorkers == \E w \in Workers :
    Receive(w) \/ IsValid(w) \/ Save(w) \/ Exists(w) \/ Delete(w)

SpecWorkers == InitPancakes /\ [][NextWorkers]_vars

---------------------------------------------------------------------------
(* Properties *)

PostOps == {"subscribe_post", "favorite_post", "shopping_cart_post"}
DeleteOps == {"subscribe_delete", "favorite_delete", "shopping_cart_delete"}
TableIndex(op) ==
    CASE op \in {"subscribe_post", "subscribe_delete"} -> 1
      [] op \in {"favorite_post", "favorite_delete"} -> 2
      [] op \in {"shopping_cart_post", "shopping_cart_delete"} -> 3
RespPair == <<resp.user, resp.target>>
TargetExists ==
    IF TableIndex(resp.op) = 1 THEN resp.target \in Users
    ELSE resp.target \in DOMAIN Recipe

\* ---- C1 ----------------------------------------------------------------
InCart(user) == {r \in DOMAIN Recipe : ShoppingCart[<<user, r>>] > 0}
PairOf(row) == <<Ingredient[row.id].name, Ingredient[row.id].measurement_unit>>
PairsInCart(user) ==
    {PairOf(row) : row \in UNION {BagToSet(RecipeIngredient[r]) : r \in InCart(user)}}

RECURSIVE RowsTotal(_, _, _)
RowsTotal(bag, rows, pair) ==
    IF rows = {} THEN 0
    ELSE LET row == CHOOSE row \in rows : TRUE
         IN (IF PairOf(row) = pair THEN bag[row] * row.amount ELSE 0)
            + RowsTotal(bag, rows \ {row}, pair)

RECURSIVE CartTotal(_, _)
CartTotal(recipes, pair) ==
    IF recipes = {} THEN 0
    ELSE LET r == CHOOSE r \in recipes : TRUE
         IN RowsTotal(RecipeIngredient[r], BagToSet(RecipeIngredient[r]), pair)
            + CartTotal(recipes \ {r}, pair)

C2_NoSelfSubscription ==
    /\ \A u \in Users : Subscription[<<u, u>>] = 0
    /\ (resp.op = "subscribe_post" /\ resp.user = resp.target) =>
          /\ resp.status = 400
          /\ Subscription = before[1]

C2_Witness ==
    /\ resp.op = "subscribe_post"
    /\ resp.user = resp.target
    /\ resp.status = 400
    /\ \E p \in DOMAIN Subscription : Subscription[p] > 0

\* ---- C3 ----------------------------------------------------------------
\* C3: served one at a time, a POST subscribe / favorite / shopping_cart for a
\* pair that already has a row is answered 400 and changes no table, and
\* every pair has at most one row in each of the three tables.
C3_DuplicatePostRejected ==
    /\ \A p \in DOMAIN Subscription : Subscription[p] <= 1
    /\ \A p \in DOMAIN Favorite : Favorite[p] <= 1
    /\ \A p \in DOMAIN ShoppingCart : ShoppingCart[p] <= 1
    /\ (resp.op \in PostOps /\ TargetExists
          /\ before[TableIndex(resp.op)][RespPair] >= 1) =>
          /\ resp.status = 400
          /\ relationTables = before

C3_Witness ==
    /\ resp.op = "favorite_post"
    /\ resp.status = 400
    /\ before[2][RespPair] = 1
    /\ \E p \in DOMAIN Subscription : Subscription[p] = 1
    /\ \E p \in DOMAIN ShoppingCart : ShoppingCart[p] = 1

\* ---- C4 ----------------------------------------------------------------
C4_DeleteOutcome ==
    (resp.op \in DeleteOps /\ TargetExists) =>
        LET i == TableIndex(resp.op)
        IN IF before[i][RespPair] = 0
           THEN /\ resp.status = 400
                /\ relationTables = before
           ELSE /\ resp.status = 204
                /\ relationTables[i] = [before[i] EXCEPT ![RespPair] = 0]
                /\ \A j \in {1, 2, 3} \ {i} : relationTables[j] = before[j]

C4_DeleteStep ==
    resp'.op \in DeleteOps =>
        /\ recipeTables' = recipeTables
        /\ (/\ resp.op \in PostOps
            /\ resp.status = 201
            /\ TableIndex(resp.op) = TableIndex(resp'.op)
            /\ <<resp'.user, resp'.target>> = RespPair) =>
              /\ resp'.status = 204
              /\ relationTables' = before

\* C4: a DELETE for a pair without a row is answered 400 and changes
\* nothing; a DELETE for a pair with a row is answered 204 and removes the
\* requesting user's row for that target and nothing else (other users' rows,
\* the other two tables and the recipes stay); a DELETE right after the
\* successful POST of the same pair gives back the tables the POST found.
C4_DeleteRemovesOwnRowOnly == [](C4_DeleteOutcome) /\ [][C4_DeleteStep]_vars

\* A favorite removed with 204 while the other user keeps theirs for the same
\* recipe and the other two tables hold rows.
C4_Witness ==
    /\ resp.op = "favorite_delete"
    /\ resp.status = 204
    /\ before[2][RespPair] = 1
    /\ \E other \in Users \ {resp.user} : Favorite[<<other, resp.target>>] = 1
    /\ \E p \in DOMAIN ShoppingCart : ShoppingCart[p] = 1
    /\ \E p \in DOMAIN Subscription : Subscription[p] = 1

\* ---- C5 ----------------------------------------------------------------
WellFormed(r) ==
    /\ RecipeTags[r] # {}
    /\ RecipeIngredient[r] # EmptyBag
    /\ \A row1, row2 \in DOMAIN RecipeIngredient[r] :
         /\ RecipeIngredient[r][row1] = 1
         /\ row1.id = row2.id => row1 = row2

Malformed(data) ==
    \/ data.tags = {}
    \/ Len(data.ingredients) = 0
    \/ \E i, j \in DOMAIN data.ingredients :
         i # j /\ data.ingredients[i].id = data.ingredients[j].id

C5_RejectStep ==
    Malformed(request') =>
        /\ resp'.status = 400
        /\ recipeTables' = recipeTables

\* C5: every stored recipe has a tag, an ingredient row and no ingredient in
\* two of its rows; a create or update whose body has no tags, no
\* ingredients or a repeated ingredient id is answered 400 with the recipe
\* tables untouched.
C5_RecipesWellFormed ==
    [](\A r \in DOMAIN Recipe : WellFormed(r)) /\ [][C5_RejectStep]_vars

\* An update of one of two recipes rejected for a repeated ingredient id.
C5_Witness ==
    /\ Len(Recipe) = 2
    /\ resp.op = "recipe_update"
    /\ resp.status = 400
    /\ request.tags # {}
    /\ Len(request.ingredients) = 2
    /\ request.ingredients[1].id = request.ingredients[2].id
    /\ request.ingredients[1].id \in DOMAIN Ingredient

\* ---- C6 ----------------------------------------------------------------
Copies(bag, row) == IF row \in DOMAIN bag THEN bag[row] ELSE 0
Submitted(data, row) ==
    Cardinality({i \in DOMAIN data.ingredients : data.ingredients[i] = row})

C6_UpdateStep ==
    (resp'.op = "recipe_update" /\ resp'.status = 200) =>
        LET instance == resp'.target
        IN /\ \A row \in DOMAIN RecipeIngredient'[instance]
                           \cup Range(request'.ingredients) :
                Copies(RecipeIngredient'[instance], row) = Submitted(request', row)
           /\ RecipeTags'[instance] = request'.tags
           /\ DOMAIN Recipe' = DOMAIN Recipe
           /\ \A other \in DOMAIN Recipe \ {instance} :
                /\ RecipeIngredient'[other] = RecipeIngredient[other]
                /\ RecipeTags'[other] = RecipeTags[other]

\* C6: after a successful update the recipe's RecipeIngredient rows are
\* exactly the submitted (id, amount) pairs and its tags exactly the
\* submitted tags, and the rows and tags of every other recipe are as before.
C6_UpdateReplacesComposition == [][C6_UpdateStep]_vars

\* A successful update of one of two recipes to rows and tags that are not
\* the other recipe's.
C6_Witness ==
    /\ resp.op = "recipe_update"
    /\ resp.status = 200
    /\ Cardinality(DOMAIN RecipeIngredient[resp.target]) = 2
    /\ \E other \in DOMAIN Recipe \ {resp.target} :
         /\ RecipeTags[resp.target] # RecipeTags[other]
         /\ DOMAIN RecipeIngredient[resp.target] \cap DOMAIN RecipeIngredient[other] = {}

\* ---- C7 ----------------------------------------------------------------
MissingIngredient(data) ==
    \E i \in DOMAIN data.ingredients : data.ingredients[i].id \notin DOMAIN Ingredient

C7_FailStep ==
    MissingIngredient(request') =>
        /\ resp'.status \in {400, 500}
        /\ recipeTables' = recipeTables

\* C7: a create or update that names an ingredient id without an Ingredient
\* row fails and leaves the Recipe rows, the tag links and the
\* RecipeIngredient rows as they were before the request.
C7_AllOrNothing == [][C7_FailStep]_vars

\* An update that passed validate and failed on the missing ingredient, on a
\* recipe whose name and tags differ from the submitted ones.
C7_Witness ==
    /\ resp.op = "recipe_update"
    /\ resp.status = 500
    /\ MissingIngredient(request)
    /\ Recipe[resp.target].name # request.name
    /\ RecipeTags[resp.target] # request.tags

\* ---- C8 ----------------------------------------------------------------
Done(w) == pc[w] = "idle" /\ req[w].op # "none"

\* C8 (its DELETE half): a DELETE subscribe that another DELETE of the same
\* subscription overtakes between its exists() and its get().delete() still
\* ends in 204 or 400.
C8_RacingSubscribeDeleteEnds204Or400 ==
    \A w, v \in Workers :
        (/\ w # v
         /\ Done(w) /\ Done(v)
         /\ req[w].op = "subscribe" /\ req[w].method = "DELETE"
         /\ req[v].op = "subscribe" /\ req[v].method = "DELETE"
         /\ req[v].user = req[w].user /\ req[v].target = req[w].target
         /\ req[v].status = 204) =>
            req[w].status \in {204, 400}

===========================================================================
